---- MODULE Spec2Model ----
(***************************************************************************)
(* Model of the fuzzy pattern matcher (FuzzyPatternMatchCB.cc): starter    *)
(* discovery, starter ranking, the bounded multi-start search loop, the    *)
(* clause_match callback and the accept/score step.  Atoms live in a fixed *)
(* table; an atom's uuid is its index in the table.                        *)
(***************************************************************************)
EXTENDS Integers, Sequences, FiniteSets, TLC

\* ------------------------------------------------------------------ bounds
\* Callbacks the collaborator makes during one engine's life.
MaxCallbacks == 3
\* Invocations of initiate_search on one engine (SpecReuse only).
MaxInvocations == 2

VARIABLES
  pattern,            \* _pattern
  reject_list,        \* reject_list
  potential_starters, \* potential_starters
  pat_size,           \* pat_size
  var_size,           \* var_size
  prev_compared,      \* prev_compared
  solns,              \* solns
  max_similarity,     \* max_similarity
  search_cnt,         \* initiate_search: search_cnt
  iset,               \* initiate_search: iset
  i,                  \* initiate_search: loop index over iset
  pc,                 \* where initiate_search is
  result,             \* the value initiate_search returned
  last,               \* the most recent clause_match call
  scored,             \* every score check_if_accept has computed, in order
  cb_cnt,             \* clause_match calls so far
  invocations,        \* initiate_search calls so far
  corpus,             \* the atoms held by the store
  calls,              \* every explore_neighborhood call so far, in order
  scA, scB,           \* two scope links
  eqAB, eqBA, eqAA    \* what is_equal returned for them

vars == << pattern, reject_list, potential_starters, pat_size, var_size,
           prev_compared, solns, max_similarity, search_cnt, iset, i, pc,
           result, last, scored, cb_cnt, invocations, corpus, calls,
           scA, scB, eqAB, eqBA, eqAA >>

scope_vars == << scA, scB, eqAB, eqBA, eqAA >>

\* ------------------------------------------------------------- atom table
UNDEFINED == 0

Node(t, n) == [kind |-> "node", type |-> t, name |-> n, out |-> <<>>]
Link(t, o) == [kind |-> "link", type |-> t, name |-> <<>>,  out |-> o]

\* Names are character sequences, so that the search for "@" is a search.
AtomTable ==
  << Node("VARIABLE_NODE", <<"$", "x">>),                \*  1  $x
     Node("CONCEPT_NODE",  <<"p", "i", "z", "z", "a">>), \*  2  pizza
     Node("CONCEPT_NODE",  <<"A", "n", "n">>),           \*  3  Ann
     Node("CONCEPT_NODE",  <<"B", "o", "b">>),           \*  4  Bob
     Node("CONCEPT_NODE",  <<"p", "a", "s", "t", "a">>), \*  5  pasta
     Node("CONCEPT_NODE",  <<"A", "n", "n", "@", "7">>), \*  6  Ann@7
     Node("CONCEPT_NODE",  <<"Z", "e", "d">>),           \*  7  Zed
     Link("LIKES_LINK",    <<1, 2>>),                    \*  8  Likes($x, pizza)
     Link("LIKES_LINK",    <<3, 2>>),                    \*  9  Likes(Ann, pizza)
     Link("LIKES_LINK",    <<4, 5>>),                    \* 10  Likes(Bob, pasta)
     Link("QUOTE_LINK",    <<5>>),                       \* 11  Quote(pasta)
     Link("LIST_LINK",     <<11, 3>>),                   \* 12  List(Quote(pasta), Ann)
     Link("QUOTE_LINK",    <<11>>),                      \* 13  Quote(Quote(pasta))
     Link("LIST_LINK",     <<1, 1>>),                    \* 14  List($x, $x)
     Link("LIST_LINK",     <<2, 6, 2>>),                 \* 15  List(pizza, Ann@7, pizza)
     Link("LIST_LINK",     <<9, 4>>),                    \* 16  List(Likes(Ann, pizza), Bob)
     Link("GREATER_THAN_LINK", <<1, 4>>),                \* 17  GreaterThan($x, Bob)
     Link("LIST_LINK",     <<9, 11>>) >>                 \* 18  List(Likes(Ann, pizza), Quote(pasta))

AtomIds == DOMAIN AtomTable

\* LinkCast / NodeCast: a null pointer for Handle::UNDEFINED.
IsLink(h) == h \in AtomIds /\ AtomTable[h].kind = "link"
IsNode(h) == h \in AtomIds /\ AtomTable[h].kind = "node"
getType(h) == AtomTable[h].type
getName(h) == AtomTable[h].name
getOutgoingSet(h) == AtomTable[h].out

\* std::find(v.begin(), v.end(), x) != v.end()
StdFind(v, x) == \E k \in DOMAIN v : v[k] = x

\* The links that list h as a direct child.
getIncomingSet(h) ==
  { l \in corpus : IsLink(l) /\ StdFind(getOutgoingSet(l), h) }
getIncomingSetSize(h) == Cardinality(getIncomingSet(h))

RECURSIVE SetToSeq(_)
SetToSeq(S) ==
  IF S = {} THEN <<>>
  ELSE LET m == CHOOSE x \in S : \A y \in S : x <= y
       IN  <<m>> \o SetToSeq(S \ {m})

\* ---------------------------------------------------------------- inputs
\* A pattern: the mandatory clauses in order, and the evaluatable ones.
Patterns ==
  { [mandatory |-> <<8>>,     evaluatable |-> {}],
    [mandatory |-> <<14>>,    evaluatable |-> {}],
    [mandatory |-> <<1>>,     evaluatable |-> {}],
    [mandatory |-> <<15>>,    evaluatable |-> {}],
    [mandatory |-> <<16, 8>>, evaluatable |-> {}],
    [mandatory |-> <<7>>,     evaluatable |-> {}],
    [mandatory |-> <<12>>,    evaluatable |-> {}],
    [mandatory |-> <<13>>,    evaluatable |-> {}],
    [mandatory |-> <<18>>,    evaluatable |-> {}],
    [mandatory |-> <<8, 17>>, evaluatable |-> {17}],
    [mandatory |-> <<17, 8>>, evaluatable |-> {17}] }

RejectLists == { <<>>, <<3>>, <<2, 5>> }

\* The stores: every atom of the table, or Likes(Ann, pizza) and
\* Likes(Bob, pasta) with their leaves and nothing else.
Corpora == { AtomIds, {2, 3, 4, 5, 9, 10} }

\* The atoms the collaborator may offer as groundings.
Candidates == { 8, 9, 10, 15, 16 }

\* ------------------------------------------------------- starter discovery
\* struct Starter
MakeStarter(hp, depth, clause_idx, term) ==
  [ uuid |-> hp, handle |-> hp, term |-> term, clause_idx |-> clause_idx,
    width |-> getIncomingSetSize(hp), depth |-> depth ]

\* np->getName().find("@") != std::string::npos
HasInstanceMarker(name) == \E k \in DOMAIN name : name[k] = "@"

\* IsStarterNode without the test for a variable.
IsStarterNode_NoVariableTest(hp) ==
  ~HasInstanceMarker(getName(hp))

\* "not an instance nor a variable"
IsStarterNode(hp) ==
  /\ getType(hp) # "VARIABLE_NODE"
  /\ ~HasInstanceMarker(getName(hp))

\* ctx carries what the C++ updates by reference: rtn, pat_size, var_size.
RECURSIVE find_starters(_, _, _, _, _)
RECURSIVE find_starters_loop(_, _, _, _, _)
find_starters(hp, depth, clause_idx, term, ctx) ==
  IF IsLink(hp)
  THEN find_starters_loop(hp, 1, depth, clause_idx, ctx)
  ELSE IF hp # UNDEFINED /\ IsNode(hp)
  THEN LET counted == [ctx EXCEPT !.pat_size = @ + 1]
       IN  IF IsStarterNode(hp)
           THEN [counted EXCEPT
                   !.rtn = Append(@, MakeStarter(hp, depth, clause_idx, term))]
           ELSE IF getType(hp) = "VARIABLE_NODE"
           THEN [counted EXCEPT !.var_size = @ + 1]
           ELSE counted
  ELSE ctx

\* for (Handle h : lp->getOutgoingSet()), from the k-th child on
find_starters_loop(hp, k, depth, clause_idx, ctx) ==
  IF k > Len(getOutgoingSet(hp))
  THEN ctx
  ELSE LET h0 == getOutgoingSet(hp)[k]
           \* Blow past the QuoteLinks
           h  == IF getType(h0) = "QUOTE_LINK"
                 THEN getOutgoingSet(h0)[1]
                 ELSE h0
       IN  find_starters_loop(hp, k + 1, depth, clause_idx,
                              find_starters(h, depth + 1, clause_idx, hp, ctx))

\* IsEvaluatable never skipping a clause.
IsEvaluatable_Never(pat, c) == FALSE

\* Line 114: 0 < _pattern->evaluatable_holders.count(clauses[i])
IsEvaluatable(pat, c) == c \in pat.evaluatable

\* Lines 110-117: every mandatory clause that is not evaluatable, in order.
\* Clause indices are 0-based as in the C++.
RECURSIVE find_all_starters(_, _, _)
find_all_starters(pat, k, ctx) ==
  IF k >= Len(pat.mandatory)
  THEN ctx
  ELSE IF IsEvaluatable(pat, pat.mandatory[k + 1])
  THEN find_all_starters(pat, k + 1, ctx)
  ELSE find_all_starters(pat, k + 1,
         find_starters(pat.mandatory[k + 1], 0, k, UNDEFINED, ctx))

\* --------------------------------------------------------- starter ranking
\* check_uniqueness comparing the whole starter, not the atom alone.
check_uniqueness_WholeStarter(s1, s2) == s1 = s2

check_uniqueness(s1, s2) == s1.uuid = s2.uuid

sort_by_uuid(s1, s2) == s1.uuid < s2.uuid

\* sort_by_wd with the depth tie-break the wrong way round.
sort_by_wd_AscendingDepth(s1, s2) ==
  IF s1.width = s2.width THEN s1.depth < s2.depth
  ELSE s1.width < s2.width

sort_by_wd(s1, s2) ==
  IF s1.width = s2.width THEN s1.depth > s2.depth
  ELSE s1.width < s2.width

RemoveAt(s, k) == SubSeq(s, 1, k - 1) \o SubSeq(s, k + 1, Len(s))

\* std::sort is not stable: every ordering of s that the comparator admits.
RECURSIVE SortedByUuid(_)
SortedByUuid(s) ==
  IF s = <<>> THEN { <<>> }
  ELSE UNION { { <<s[m]>> \o t : t \in SortedByUuid(RemoveAt(s, m)) } :
               m \in { m \in DOMAIN s :
                         \A k \in DOMAIN s : ~sort_by_uuid(s[k], s[m]) } }

RECURSIVE SortedByWd(_)
SortedByWd(s) ==
  IF s = <<>> THEN { <<>> }
  ELSE UNION { { <<s[m]>> \o t : t \in SortedByWd(RemoveAt(s, m)) } :
               m \in { m \in DOMAIN s :
                         \A k \in DOMAIN s : ~sort_by_wd(s[k], s[m]) } }

\* std::unique: an element equal to the last one kept is dropped.
RECURSIVE StdUnique(_, _, _)
StdUnique(s, k, acc) ==
  IF k > Len(s) THEN acc
  ELSE IF acc # <<>> /\ check_uniqueness(acc[Len(acc)], s[k])
  THEN StdUnique(s, k + 1, acc)
  ELSE StdUnique(s, k + 1, Append(acc, s[k]))

\* Lines 131-144: the starter lists the two sorts and the erase can leave.
RankedStarters(ps) ==
  UNION { SortedByWd(StdUnique(u, 1, <<>>)) : u \in SortedByUuid(ps) }

\* ------------------------------------------------------------------ scoring
\* The leaf atoms reachable from h, each once, in the order first met.
RECURSIVE get_all_nodes(_)
RECURSIVE get_all_nodes_from(_, _, _)
get_all_nodes(h) ==
  IF IsLink(h) THEN get_all_nodes_from(h, 1, <<>>) ELSE <<h>>

get_all_nodes_from(h, k, acc) ==
  IF k > Len(getOutgoingSet(h)) THEN acc
  ELSE LET sub == get_all_nodes(getOutgoingSet(h)[k])
           new == SelectSeq(sub, LAMBDA x : ~StdFind(acc, x))
       IN  get_all_nodes_from(h, k + 1, acc \o new)

\* std::sort on handles
RECURSIVE SortHandles(_)
SortHandles(s) ==
  IF s = <<>> THEN <<>>
  ELSE LET m == CHOOSE k \in DOMAIN s : \A j \in DOMAIN s : s[k] <= s[j]
       IN  <<s[m]>> \o SortHandles(RemoveAt(s, m))

\* std::set_intersection on two sorted sequences
RECURSIVE set_intersection(_, _)
set_intersection(a, b) ==
  IF a = <<>> \/ b = <<>> THEN <<>>
  ELSE IF Head(a) < Head(b) THEN set_intersection(Tail(a), b)
  ELSE IF Head(b) < Head(a) THEN set_intersection(a, Tail(b))
  ELSE <<Head(a)>> \o set_intersection(Tail(a), Tail(b))

\* size_t is 64 bits wide: four 16-bit limbs, least significant first.
Limb == 65536
ToSizeT(n) == << n % Limb, (n \div Limb) % Limb, 0, 0 >>

RECURSIVE SizeSubFrom(_, _, _, _)
SizeSubFrom(a, b, k, borrow) ==
  IF k > 4 THEN <<>>
  ELSE LET d == a[k] - b[k] - borrow
       IN  IF d < 0
           THEN <<d + Limb>> \o SizeSubFrom(a, b, k + 1, 1)
           ELSE <<d>> \o SizeSubFrom(a, b, k + 1, 0)

\* pat_size - gn.size(), modulo 2^64
SizeSub(a, b) == SizeSubFrom(a, b, 1, 0)

\* (int) of a size_t: the low 32 bits, two's complement
IntCast(u) ==
  IF u[2] >= Limb \div 2
  THEN u[1] + Limb * (u[2] - Limb)
  ELSE u[1] + Limb * u[2]

\* StdAbs left out.
StdAbs_Identity(x) == x

StdAbs(x) == IF x < 0 THEN -x ELSE x

\* IsRejected looking for the first reject-list atom only.
IsRejected_FirstOnly(gn, rl) == rl # <<>> /\ StdFind(gn, rl[1])

\* Lines 236-238
IsRejected(gn, rl) == \E k \in DOMAIN rl : StdFind(gn, rl[k])

\* Similarity without the count of common nodes.
Similarity_NoCommon(pn, gn, psize) ==
  0 - StdAbs(IntCast(SizeSub(ToSizeT(psize), ToSizeT(Len(gn)))))

\* Lines 243-253
Similarity(pn, gn, psize) ==
  LET common_nodes == set_intersection(SortHandles(pn), SortHandles(gn))
      common == Len(common_nodes)
      diff   == StdAbs(IntCast(SizeSub(ToSizeT(psize), ToSizeT(Len(gn)))))
  IN  common - diff

\* max_similarity before any candidate was scored
MaxSimilarityInit == [unset |-> TRUE, v |-> 0]
ScoreGreater(x, m) == m.unset \/ x > m.v
ScoreEqual(x, m)   == ~m.unset /\ x = m.v

\* Accept with >= in place of >: a tie replaces the solution set.
Accept_TieReplaces(similarity, gh, msim, sol) ==
  IF ScoreGreater(similarity, msim) \/ ScoreEqual(similarity, msim)
  THEN [max_similarity |-> [unset |-> FALSE, v |-> similarity],
        solns |-> <<gh>>]
  ELSE [max_similarity |-> msim, solns |-> sol]

\* Lines 266-274
Accept(similarity, gh, msim, sol) ==
  IF ScoreGreater(similarity, msim)
  THEN [max_similarity |-> [unset |-> FALSE, v |-> similarity],
        solns |-> <<gh>>]
  ELSE IF ScoreEqual(similarity, msim)
  THEN [max_similarity |-> msim, solns |-> Append(sol, gh)]
  ELSE [max_similarity |-> msim, solns |-> sol]

\* check_if_accept: what it leaves in max_similarity and solns, and whether
\* it scored the candidate.
check_if_accept(ph, gh, rl, psize, msim, sol) ==
  LET pn == get_all_nodes(ph)
      gn == get_all_nodes(gh)
  IN  IF IsRejected(gn, rl)
      THEN [max_similarity |-> msim, solns |-> sol,
            scored |-> FALSE, similarity |-> 0]
      ELSE LET similarity == Similarity(pn, gn, psize)
               a == Accept(similarity, gh, msim, sol)
           IN  [max_similarity |-> a.max_similarity, solns |-> a.solns,
                scored |-> TRUE, similarity |-> similarity]

\* AlreadyCompared looking at the most recent pair only.
AlreadyCompared_LastOnly(pc_list, p) ==
  pc_list # <<>> /\ pc_list[Len(pc_list)] = p

\* Line 213
AlreadyCompared(pc_list, p) == StdFind(pc_list, p)

\* SearchResult asking for more than one solution.
SearchResult_MoreThanOne(sol) == Len(sol) > 1

\* Lines 188-198
SearchResult(sol) == Len(sol) > 0

\* The cap on the number of searches.
MAX_SEARCHES == 2

\* ------------------------------------------------------------ scope links
\* Scope links are built over terms held as trees: the outgoing set of a
\* link is a sequence of terms.
Handle_UNDEFINED == [kind |-> "undefined", type |-> "", name |-> <<>>, out |-> <<>>]

VarX == Node("VARIABLE_NODE", <<"x">>)
VarY == Node("VARIABLE_NODE", <<"y">>)
VarZ == Node("VARIABLE_NODE", <<"z">>)
GlobG == Node("GLOB_NODE", <<"g">>)
TypeConcept == Node("TYPE_NODE", <<"C">>)
P(a) == Link("EVALUATION_LINK", << Node("PREDICATE_NODE", <<"P">>), a >>)
Q(a) == Link("EVALUATION_LINK", << Node("PREDICATE_NODE", <<"Q">>), a >>)
P2(a, b) == Link("LIST_LINK", << a, b >>)
Typed(v) == Link("TYPED_VARIABLE_LINK", << v, TypeConcept >>)
VarList(vs) == Link("VARIABLE_LIST", vs)

\* ClassServer: the types that are a SCOPE_LINK.
ScopeTypes == { "SCOPE_LINK", "LAMBDA_LINK" }

\* The links a scope is constructed from: type and outgoing set.
ScopeInputs ==
  { Link("SCOPE_LINK", <<>>),
    Link("SCOPE_LINK", << VarX >>),
    Link("SCOPE_LINK", << GlobG >>),
    Link("SCOPE_LINK", << Typed(VarX) >>),
    Link("SCOPE_LINK", << VarList(<< VarX, VarY >>) >>),
    Link("SCOPE_LINK", << VarX, P(VarX) >>),
    Link("SCOPE_LINK", << VarY, P(VarY) >>),
    Link("SCOPE_LINK", << VarX, Q(VarX) >>),
    Link("SCOPE_LINK", << P(VarX) >>),
    Link("SCOPE_LINK", << P(VarY) >>),
    Link("SCOPE_LINK", << Typed(VarX), P(VarX) >>),
    Link("SCOPE_LINK", << VarX, P2(VarX, VarY) >>),
    Link("SCOPE_LINK", << VarY, P2(VarY, VarY) >>),
    Link("SCOPE_LINK", << VarList(<< VarX, VarY >>), P2(VarX, VarY) >>),
    Link("SCOPE_LINK", << VarList(<< VarY, VarX >>), P2(VarX, VarY) >>),
    Link("SCOPE_LINK", << VarX, P(VarX), Q(VarX) >>),
    Link("SCOPE_LINK", << Link("LAMBDA_LINK", << VarY, P(VarY) >>) >>),
    Link("SCOPE_LINK",
         << P2(VarX, Link("LAMBDA_LINK", << VarY, P2(VarY, VarZ) >>)) >>),
    Link("LAMBDA_LINK", << VarX, P(VarX) >>),
    Link("LIST_LINK", << VarX, P(VarX) >>) }

\* A variable of a variable list, with its type restriction if it has one.
Untyped(v) == [var |-> v, restriction |-> Handle_UNDEFINED]

\* VariableList: a variable list gives its children in order, a single
\* variable, typed variable or glob gives a list of one.
VariableOf(h) ==
  IF h.type = "TYPED_VARIABLE_LINK"
  THEN [var |-> h.out[1], restriction |-> h.out[2]]
  ELSE Untyped(h)

get_variables(hvar) ==
  IF hvar.type = "VARIABLE_LIST"
  THEN [k \in DOMAIN hvar.out |-> VariableOf(hvar.out[k])]
  ELSE << VariableOf(hvar) >>

\* Lines 105-108 without the test for a glob.
IsVariableDeclaration_NoGlob(decls) ==
  decls \in { "VARIABLE_LIST", "VARIABLE_NODE", "TYPED_VARIABLE_LINK" }

\* Lines 105-108: the types that are a variable declaration.
IsVariableDeclaration(decls) ==
  decls \in { "VARIABLE_LIST", "VARIABLE_NODE", "TYPED_VARIABLE_LINK",
              "GLOB_NODE" }

\* s followed by the members of t it does not hold yet.
RECURSIVE AppendNew(_, _)
AppendNew(s, t) ==
  IF t = <<>> THEN s
  ELSE AppendNew(IF StdFind(s, Head(t)) THEN s ELSE Append(s, Head(t)),
                 Tail(t))

\* The variables a nested scope binds.
BoundBy(h) ==
  IF h.out # <<>> /\ IsVariableDeclaration(h.out[1].type)
  THEN { v.var : v \in { get_variables(h.out[1])[k] :
                         k \in DOMAIN get_variables(h.out[1]) } }
  ELSE {}

\* Variables::find_variables: the free variables of a term in the order of
\* their first occurrence; a variable bound by a nested scope is not free.
RECURSIVE find_variables(_, _)
find_variables(h, bound) ==
  IF h.kind = "node"
  THEN IF h.type \in { "VARIABLE_NODE", "GLOB_NODE" } /\ h \notin bound
       THEN << h >> ELSE <<>>
  ELSE LET b == IF h.type \in ScopeTypes THEN bound \cup BoundBy(h) ELSE bound
           F[k \in 0..Len(h.out)] ==
             IF k = 0 THEN <<>>
             ELSE AppendNew(F[k - 1], find_variables(h.out[k], b))
       IN  F[Len(h.out)]

\* The members a scope has before extract_variables has run.
Unset == [_vardecl |-> Handle_UNDEFINED, _body |-> Handle_UNDEFINED,
          _varlist |-> <<>>, thrown |-> "none"]

\* extract_variables, lines 93-139.
RECURSIVE extract_variables(_)
extract_variables(oset) ==
  IF Len(oset) = 0
  THEN [Unset EXCEPT !.thrown = "SyntaxException"]
  ELSE LET decls == oset[1].type
       IN  IF ~IsVariableDeclaration(decls)
           THEN IF oset[1].type = "LAMBDA_LINK"
                THEN LET lam == extract_variables(oset[1].out)
                     IN  [_vardecl |-> Handle_UNDEFINED,
                          _body |-> lam._body,
                          _varlist |-> lam._varlist,
                          thrown |-> lam.thrown]
                ELSE LET fv == find_variables(oset[1], {})
                     IN  [_vardecl |-> Handle_UNDEFINED,
                          _body |-> oset[1],
                          _varlist |-> [k \in DOMAIN fv |-> Untyped(fv[k])],
                          thrown |-> "none"]
           ELSE IF Len(oset) < 2
           THEN [Unset EXCEPT !.thrown = "SyntaxException"]
           ELSE [_vardecl |-> oset[1],
                 _body |-> oset[2],
                 _varlist |-> get_variables(oset[1]),
                 thrown |-> "none"]

\* ScopeLink(Link&), lines 72-90, for the link l: the type check, and init
\* for a link that is exactly a SCOPE_LINK.
ScopeLink(l) ==
  LET base == [built |-> "ok", type |-> l.type, oset |-> l.out,
               _vardecl |-> Handle_UNDEFINED, _body |-> Handle_UNDEFINED,
               _varlist |-> <<>>]
  IN  IF l.type \notin ScopeTypes
      THEN [base EXCEPT !.built = "InvalidParamException"]
      ELSE IF l.type # "SCOPE_LINK"
      THEN base
      ELSE LET e == extract_variables(l.out)
           IN  [base EXCEPT !.built = IF e.thrown = "none" THEN "ok"
                                      ELSE e.thrown,
                            !._vardecl = e._vardecl,
                            !._body = e._body,
                            !._varlist = e._varlist]

\* The link a scope is going to be constructed from.
NoScope(l) ==
  [built |-> "no", type |-> l.type, oset |-> l.out,
   _vardecl |-> Handle_UNDEFINED, _body |-> Handle_UNDEFINED,
   _varlist |-> <<>>]

\* Variables::is_equal: the same number of variables with the same type
\* restriction at each position.
VariablesIsEqual(a, b) ==
  /\ Len(a) = Len(b)
  /\ \A k \in DOMAIN a : a[k].restriction = b[k].restriction

\* Variables::substitute_nocheck: every occurrence of the k-th variable of
\* varlist in term becomes args[k].
RECURSIVE substitute_nocheck(_, _, _)
substitute_nocheck(varlist, term, args) ==
  IF \E k \in DOMAIN varlist : varlist[k].var = term
  THEN args[CHOOSE k \in DOMAIN varlist : varlist[k].var = term]
  ELSE IF term.kind = "node" THEN term
  ELSE [term EXCEPT !.out = [k \in DOMAIN term.out |->
                               substitute_nocheck(varlist, term.out[k], args)]]

varseq(varlist) == [k \in DOMAIN varlist |-> varlist[k].var]

\* Lines 182-188 with the other term taken as it stands.
ScopedTermMatches_NoSubstitution(this, other, h, other_h) ==
  h = other_h

\* Lines 182-188: the other term with our variables in place of its
\* variables is the same as our term.
ScopedTermMatches(this, other, h, other_h) ==
  h = substitute_nocheck(other._varlist, other_h, varseq(this._varlist))

\* is_equal, lines 159-191; same_ref says that other is this very object.
is_equal(this, other, same_ref) ==
  IF same_ref THEN TRUE
  ELSE IF other.type # this.type THEN FALSE
  ELSE LET vardecl_offset == IF this._vardecl # Handle_UNDEFINED THEN 1 ELSE 0
           other_vardecl_offset ==
             IF other._vardecl # Handle_UNDEFINED THEN 1 ELSE 0
           n_scoped_terms == Len(this.oset) - vardecl_offset
           other_n_scoped_terms == Len(other.oset) - other_vardecl_offset
       IN  IF n_scoped_terms # other_n_scoped_terms THEN FALSE
           ELSE IF ~VariablesIsEqual(this._varlist, other._varlist) THEN FALSE
           ELSE \A n \in 0..(n_scoped_terms - 1) :
                  ScopedTermMatches(this, other,
                                    this.oset[n + vardecl_offset + 1],
                                    other.oset[n + other_vardecl_offset + 1])

\* No scope link is under construction or compared.
ScopeIdle ==
  /\ scA = NoScope(Link("SCOPE_LINK", <<>>))
  /\ scB = NoScope(Link("SCOPE_LINK", <<>>))
  /\ eqAB = "none"
  /\ eqBA = "none"
  /\ eqAA = "none"

\* --------------------------------------------------------------- the engine
NoCall == [ph |-> UNDEFINED, gh |-> UNDEFINED, fresh |-> FALSE, ret |-> FALSE]

\* FuzzyPatternMatchCB::FuzzyPatternMatchCB, then set_pattern
Init ==
  /\ pattern \in Patterns
  /\ reject_list \in RejectLists
  /\ potential_starters = <<>>
  /\ pat_size = 0
  /\ var_size = 0
  /\ prev_compared = <<>>
  /\ solns = <<>>
  /\ max_similarity = MaxSimilarityInit
  /\ search_cnt = 0
  /\ iset = <<>>
  /\ i = 0
  /\ pc = "idle"
  /\ result = FALSE
  /\ last = NoCall
  /\ scored = <<>>
  /\ cb_cnt = 0
  /\ invocations = 0
  /\ corpus \in Corpora
  /\ calls = <<>>
  /\ ScopeIdle

\* The clauses the collaborator matches structurally.
MatchedClauses(pat) ==
  { pat.mandatory[k] : k \in DOMAIN pat.mandatory } \ pat.evaluatable

\* initiate_search, lines 107-147: discovery, deduplication, ranking.
initiate_search ==
  /\ pc = "idle"
  /\ LET ctx == find_all_starters(pattern, 0,
                  [rtn |-> potential_starters,
                   pat_size |-> pat_size, var_size |-> var_size])
     IN  /\ potential_starters' \in RankedStarters(ctx.rtn)
         /\ pat_size' = ctx.pat_size
         /\ var_size' = ctx.var_size
  /\ search_cnt' = 0
  /\ pc' = "loop"
  /\ invocations' = invocations + 1
  /\ UNCHANGED << pattern, reject_list, prev_compared, solns, max_similarity,
                  iset, i, result, last, scored, cb_cnt >>
  /\ UNCHANGED << corpus, calls, scope_vars >>

\* The starter of the search in progress and what is passed on from it.
CurrentStarter == potential_starters[search_cnt]

\* RootOf taking the first clause whatever the starter's clause is.
RootOf_FirstClause(pat, s) == pat.mandatory[1]

\* Line 158: clauses[potential_starters[search_cnt].clause_idx]
RootOf(pat, s) == pat.mandatory[s.clause_idx + 1]

root == RootOf(pattern, CurrentStarter)
starter_term == CurrentStarter.term
best_start == CurrentStarter.handle

\* Lines 148-173: one more search is due and a starter is left.  The
\* starter's strings are written out; starter_term is dereferenced for it.
NextStarter ==
  /\ pc = "loop"
  /\ MAX_SEARCHES > search_cnt
  /\ Len(potential_starters) # search_cnt
  /\ search_cnt' = search_cnt + 1
  /\ LET s == potential_starters[search_cnt + 1]
     IN  \/ /\ s.term # UNDEFINED
            /\ pc' = "explore"
            /\ iset' = SetToSeq(getIncomingSet(s.handle))
            /\ i' = 0
         \/ /\ s.term = UNDEFINED      \* null dereference: it may survive
            /\ pc' = "explore"
            /\ iset' = SetToSeq(getIncomingSet(s.handle))
            /\ i' = 0
         \/ /\ s.term = UNDEFINED      \* null dereference: it may crash
            /\ pc' = "crashed"
            /\ UNCHANGED << iset, i >>
  /\ UNCHANGED << pattern, reject_list, potential_starters, pat_size,
                  var_size, prev_compared, solns, max_similarity, result,
                  last, scored, cb_cnt, invocations >>
  /\ UNCHANGED << corpus, calls, scope_vars >>

\* Line 183: pme->explore_neighborhood(root, starter_term, iset[i]) is called.
ExploreCall ==
  /\ pc = "explore"
  /\ i < Len(iset)
  /\ pc' = "in_explore"
  /\ calls' = Append(calls, [search |-> search_cnt, root |-> root,
                             term |-> starter_term, h |-> iset[i + 1]])
  /\ UNCHANGED << pattern, reject_list, potential_starters, pat_size,
                  var_size, prev_compared, solns, max_similarity, search_cnt,
                  iset, i, result, last, scored, cb_cnt, invocations >>
  /\ UNCHANGED << corpus, scope_vars >>

\* ClauseMatchReturn refusing a pair it has seen before.
ClauseMatchReturn_VetoRepeated(found) == ~found

\* Line 219: the value clause_match returns; found is the outcome of the
\* search in prev_compared.
ClauseMatchReturn(found) == TRUE

\* clause_match, called back by the collaborator while it explores.
clause_match(ph, gh) ==
  /\ pc = "in_explore"
  /\ cb_cnt < MaxCallbacks
  /\ LET p == <<ph, gh>>
     IN  IF ~AlreadyCompared(prev_compared, p)
         THEN LET r == check_if_accept(ph, gh, reject_list, pat_size,
                                       max_similarity, solns)
              IN  /\ max_similarity' = r.max_similarity
                  /\ solns' = r.solns
                  /\ scored' = IF r.scored
                               THEN Append(scored, <<gh, r.similarity>>)
                               ELSE scored
                  /\ prev_compared' = Append(prev_compared, p)
                  /\ last' = [ph |-> ph, gh |-> gh, fresh |-> TRUE,
                              ret |-> ClauseMatchReturn(FALSE)]
         ELSE /\ UNCHANGED << max_similarity, solns, scored, prev_compared >>
              /\ last' = [ph |-> ph, gh |-> gh, fresh |-> FALSE,
                          ret |-> ClauseMatchReturn(TRUE)]
  /\ cb_cnt' = cb_cnt + 1
  /\ UNCHANGED << pattern, reject_list, potential_starters, pat_size,
                  var_size, search_cnt, iset, i, pc, result, invocations >>
  /\ UNCHANGED << corpus, calls, scope_vars >>

\* explore_neighborhood returns; the for loop steps on.
ExploreReturn ==
  /\ pc = "in_explore"
  /\ i' = i + 1
  /\ pc' = "explore"
  /\ UNCHANGED << pattern, reject_list, potential_starters, pat_size,
                  var_size, prev_compared, solns, max_similarity, search_cnt,
                  iset, result, last, scored, cb_cnt, invocations >>
  /\ UNCHANGED << corpus, calls, scope_vars >>

\* Line 174: the incoming set is used up; back to the while test.
IsetDone ==
  /\ pc = "explore"
  /\ i = Len(iset)
  /\ pc' = "loop"
  /\ UNCHANGED << pattern, reject_list, potential_starters, pat_size,
                  var_size, prev_compared, solns, max_similarity, search_cnt,
                  iset, i, result, last, scored, cb_cnt, invocations >>
  /\ UNCHANGED << corpus, calls, scope_vars >>

\* Lines 148-155 and 187-198: the loop ends, the result is computed.
Return ==
  /\ pc = "loop"
  /\ \/ ~(MAX_SEARCHES > search_cnt)
     \/ Len(potential_starters) = search_cnt
  /\ result' = SearchResult(solns)
  /\ pc' = "done"
  /\ UNCHANGED << pattern, reject_list, potential_starters, pat_size,
                  var_size, prev_compared, solns, max_similarity, search_cnt,
                  iset, i, last, scored, cb_cnt, invocations >>
  /\ UNCHANGED << corpus, calls, scope_vars >>

\* The caller runs initiate_search again on the same engine.
Reinvoke ==
  /\ pc = "done"
  /\ invocations < MaxInvocations
  /\ pc' = "idle"
  /\ UNCHANGED << pattern, reject_list, potential_starters, pat_size,
                  var_size, prev_compared, solns, max_similarity, search_cnt,
                  iset, i, result, last, scored, cb_cnt, invocations >>
  /\ UNCHANGED << corpus, calls, scope_vars >>

Callback == \E ph \in MatchedClauses(pattern), gh \in Candidates \cap corpus :
              clause_match(ph, gh)

Next ==
  \/ initiate_search
  \/ NextStarter
  \/ ExploreCall
  \/ Callback
  \/ ExploreReturn
  \/ IsetDone
  \/ Return

\* One engine, one query.
Spec == Init /\ [][Next]_vars

NextReuse == Next \/ Reinvoke

\* One engine, queried more than once.
SpecReuse == Init /\ [][NextReuse]_vars

\* ------------------------------------------------------- scope link driver
fuzzy_vars == << pattern, reject_list, potential_starters, pat_size, var_size,
                 prev_compared, solns, max_similarity, search_cnt, iset, i,
                 pc, result, last, scored, cb_cnt, invocations, corpus, calls >>

\* Two links to construct scopes from; the engine is not in use.
InitScope ==
  /\ pattern = [mandatory |-> <<8>>, evaluatable |-> {}]
  /\ reject_list = <<>>
  /\ potential_starters = <<>>
  /\ pat_size = 0
  /\ var_size = 0
  /\ prev_compared = <<>>
  /\ solns = <<>>
  /\ max_similarity = MaxSimilarityInit
  /\ search_cnt = 0
  /\ iset = <<>>
  /\ i = 0
  /\ pc = "idle"
  /\ result = FALSE
  /\ last = NoCall
  /\ scored = <<>>
  /\ cb_cnt = 0
  /\ invocations = 0
  /\ corpus = AtomIds
  /\ calls = <<>>
  /\ \E la, lb \in ScopeInputs : scA = NoScope(la) /\ scB = NoScope(lb)
  /\ eqAB = "none"
  /\ eqBA = "none"
  /\ eqAA = "none"

BoolStr(b) == IF b THEN "true" ELSE "false"

ConstructA ==
  /\ scA.built = "no"
  /\ scA' = ScopeLink(Link(scA.type, scA.oset))
  /\ UNCHANGED << scB, eqAB, eqBA, eqAA, fuzzy_vars >>

ConstructB ==
  /\ scB.built = "no"
  /\ scB' = ScopeLink(Link(scB.type, scB.oset))
  /\ UNCHANGED << scA, eqAB, eqBA, eqAA, fuzzy_vars >>

\* scA->is_equal(scB), two objects.
CompareAB ==
  /\ scA.built = "ok" /\ scB.built = "ok"
  /\ eqAB = "none"
  /\ eqAB' = BoolStr(is_equal(scA, scB, FALSE))
  /\ UNCHANGED << scA, scB, eqBA, eqAA, fuzzy_vars >>

\* scB->is_equal(scA).
CompareBA ==
  /\ scA.built = "ok" /\ scB.built = "ok"
  /\ eqBA = "none"
  /\ eqBA' = BoolStr(is_equal(scB, scA, FALSE))
  /\ UNCHANGED << scA, scB, eqAB, eqAA, fuzzy_vars >>

\* scA->is_equal(scA), one object.
CompareAA ==
  /\ scA.built = "ok"
  /\ eqAA = "none"
  /\ eqAA' = BoolStr(is_equal(scA, scA, TRUE))
  /\ UNCHANGED << scA, scB, eqAB, eqBA, fuzzy_vars >>

NextScope ==
  \/ ConstructA
  \/ ConstructB
  \/ CompareAB
  \/ CompareBA
  \/ CompareAA

SpecScope == InitScope /\ [][NextScope]_vars

\* ------------------------------------------------------------- properties
Min(a, b) == IF a < b THEN a ELSE b

Range(s) == { s[k] : k \in DOMAIN s }

\* The leaves below h, as a set.
RECURSIVE LeafSet(_)
LeafSet(h) ==
  IF IsLink(h)
  THEN UNION { LeafSet(getOutgoingSet(h)[k]) : k \in DOMAIN getOutgoingSet(h) }
  ELSE {h}

HasRejectedLeaf(h) == LeafSet(h) \cap Range(reject_list) # {}

\* The starters find_starters discovers in the pattern, before ranking.
DiscoveredStarters ==
  find_all_starters(pattern, 0,
                    [rtn |-> <<>>, pat_size |-> 0, var_size |-> 0]).rtn

Stopped == pc \in {"done", "crashed"}

\* The highest score computed so far.
MaxScored == CHOOSE m \in { scored[k][2] : k \in DOMAIN scored } :
               \A k \in DOMAIN scored : scored[k][2] <= m

\* The candidates scored m, in the order they were presented.
RECURSIVE ScoredAt(_, _)
ScoredAt(sc, m) ==
  IF sc = <<>> THEN <<>>
  ELSE IF Head(sc)[2] = m THEN <<Head(sc)[1]>> \o ScoredAt(Tail(sc), m)
  ELSE ScoredAt(Tail(sc), m)

\* C1: after any sequence of check_if_accept calls on non-rejected
\* candidates, best_score is the maximum score of the sequence and the
\* solution set holds exactly the candidates with that score, in the order
\* they were presented (so a greater score replaced, an equal one appended,
\* a lower one changed nothing).
C1_BestScoreAndTies ==
  IF scored = <<>>
  THEN solns = <<>> /\ max_similarity.unset
  ELSE /\ ~max_similarity.unset
       /\ max_similarity.v = MaxScored
       /\ solns = ScoredAt(scored, MaxScored)

\* A tie at the maximum was kept and a later, lower score changed nothing.
C1_Witness ==
  /\ Len(scored) >= 3
  /\ Len(solns) = 2
  /\ scored[Len(scored)][2] < max_similarity.v
  /\ scored[1][2] = max_similarity.v

\* C2: no atom in the solution set has a reject-list atom among its leaves,
\* and a clause_match call whose candidate has such a leaf changes neither
\* the solution set nor best_score.
C2_RejectedNeverAccepted ==
  [][ /\ \A k \in DOMAIN solns' : ~HasRejectedLeaf(solns'[k])
      /\ (cb_cnt' # cb_cnt /\ HasRejectedLeaf(last'.gh))
           => (solns' = solns /\ max_similarity' = max_similarity) ]_vars

\* A rejected candidate that would have beaten the best score was offered.
C2_Witness ==
  /\ last.fresh
  /\ HasRejectedLeaf(last.gh)
  /\ ~max_similarity.unset
  /\ Similarity(get_all_nodes(last.ph), get_all_nodes(last.gh), pat_size)
       > max_similarity.v

\* C3: a clause_match call with a pair that was already compared leaves the
\* solution set, best_score and the compared pairs as they were.
C3_RepeatedPairIsNoOp ==
  [][ (cb_cnt' # cb_cnt /\ <<last'.ph, last'.gh>> \in Range(prev_compared))
        => /\ solns' = solns
           /\ max_similarity' = max_similarity
           /\ prev_compared' = prev_compared ]_vars

\* The first pair was compared again after another pair had been compared.
C3_Witness ==
  /\ last.ret
  /\ ~last.fresh
  /\ Len(prev_compared) >= 2
  /\ prev_compared[1] = <<last.ph, last.gh>>

\* C4: initiate_search consumes exactly min(N, MAX_SEARCHES) starters, the
\* loop ends and the result is computed: whenever initiate_search has
\* stopped, it has returned with that many starters consumed.
C4_ConsumesMinAndEnds ==
  Stopped => /\ pc = "done"
             /\ search_cnt = Min(Len(potential_starters), MAX_SEARCHES)

\* C5: initiate_search returns true exactly when the solution set is not
\* empty at the end of the loop, whatever best_score is.
C5_ResultIffSolutions ==
  pc = "done" => (result <=> solns # <<>>)

\* Success with a negative best score.
C5_Witness ==
  /\ pc = "done"
  /\ result
  /\ ~max_similarity.unset
  /\ max_similarity.v < 0

\* C6: at the start of every invocation of initiate_search the starter
\* list, the leaf counters, the compared pairs and the solution set are
\* empty and best_score is unset.
C6_FreshAtEveryInvocation ==
  pc = "idle" => /\ potential_starters = <<>>
                 /\ pat_size = 0
                 /\ var_size = 0
                 /\ prev_compared = <<>>
                 /\ solns = <<>>
                 /\ max_similarity.unset

\* C7: with no discoverable starter, or no incoming link on any starter, or
\* a reject list that filters every candidate, initiate_search ends in a
\* clean "no solution": it returns false with an empty solution set and
\* never stops in a crash.
C7_CleanNoSolution ==
  ( /\ Stopped
    /\ \/ DiscoveredStarters = <<>>
       \/ \A k \in DOMAIN DiscoveredStarters :
            getIncomingSet(DiscoveredStarters[k].handle) = {}
       \/ \A gh \in Candidates : HasRejectedLeaf(gh) )
  => (pc = "done" /\ ~result /\ solns = <<>>)

IsVariable(h) == AtomTable[h].type = "VARIABLE_NODE"

\* Leaf occurrences below h; with only_vars, the variable ones.
RECURSIVE CountLeaves(_, _)
CountLeaves(h, only_vars) ==
  IF IsLink(h)
  THEN LET o == getOutgoingSet(h)
           F[k \in 0..Len(o)] ==
             IF k = 0 THEN 0 ELSE F[k - 1] + CountLeaves(o[k], only_vars)
       IN  F[Len(o)]
  ELSE IF only_vars /\ ~IsVariable(h) THEN 0 ELSE 1

\* Leaf occurrences in the clauses starter discovery walks.
CountInPattern(only_vars) ==
  LET m == pattern.mandatory
      F[k \in 0..Len(m)] ==
        IF k = 0 THEN 0
        ELSE F[k - 1] + (IF m[k] \in pattern.evaluatable THEN 0
                         ELSE CountLeaves(m[k], only_vars))
  IN  F[Len(m)]

\* C8: no starter is a variable or has "@" in its name, pat_size is the
\* number of leaf occurrences visited and var_size the number of variable
\* occurrences; a pattern of variables only has no starter and
\* pat_size = var_size.
C8_StartersAndCounters ==
  pc # "idle" =>
    /\ \A k \in DOMAIN potential_starters :
         /\ ~IsVariable(potential_starters[k].handle)
         /\ "@" \notin Range(AtomTable[potential_starters[k].handle].name)
    /\ pat_size = CountInPattern(FALSE)
    /\ var_size = CountInPattern(TRUE)
    /\ (pat_size = var_size => potential_starters = <<>>)

\* A pattern of two variable occurrences was scanned.
C8_Witness ==
  /\ pc = "done"
  /\ potential_starters = <<>>
  /\ pat_size = 2
  /\ var_size = 2

\* C9: the starters consumed so far are in ranked order: ascending width,
\* and descending depth among equal widths.
C9_ConsumedInRankedOrder ==
  \A a, b \in 1..search_cnt :
    a < b =>
      LET sa == potential_starters[a]
          sb == potential_starters[b]
      IN  \/ sa.width < sb.width
          \/ sa.width = sb.width /\ sa.depth >= sb.depth

\* Two starters of equal width and different depth were consumed.
C9_Witness ==
  /\ search_cnt = 2
  /\ potential_starters[1].width = potential_starters[2].width
  /\ potential_starters[1].depth > potential_starters[2].depth

\* C10: after deduplication the starter list holds each atom at most once.
C10_StartersDistinct ==
  pc # "idle" =>
    \A a, b \in DOMAIN potential_starters :
      a # b => potential_starters[a].handle # potential_starters[b].handle

\* A leaf found more than once in the pattern was searched from once.
C10_Witness ==
  /\ pc = "done"
  /\ Len(DiscoveredStarters) > Len(potential_starters)
  /\ search_cnt = Len(potential_starters)

AbsDiff(a, b) == IF a >= b THEN a - b ELSE b - a

\* C11: the score of a candidate that is not rejected is the number of
\* leaves it shares with the pattern atom minus the absolute difference
\* between pat_size and its own number of leaves, the same whether it has
\* more leaves than the pattern or fewer.
C11_ScoreIsCommonMinusSizeDiff ==
  (last.fresh /\ ~HasRejectedLeaf(last.gh)) =>
    /\ scored # <<>>
    /\ scored[Len(scored)] =
         << last.gh,
            Cardinality(LeafSet(last.ph) \cap LeafSet(last.gh))
              - AbsDiff(pat_size, Cardinality(LeafSet(last.gh))) >>

\* A candidate with more leaves than the pattern was scored.
C11_Witness ==
  /\ last.fresh
  /\ ~HasRejectedLeaf(last.gh)
  /\ pat_size > 0
  /\ Cardinality(LeafSet(last.gh)) > pat_size
  /\ scored[Len(scored)][2] < 0

PizzaScenario ==
  /\ pattern = [mandatory |-> <<8>>, evaluatable |-> {}]
  /\ reject_list = <<>>
  /\ corpus = {2, 3, 4, 5, 9, 10}

\* The collaborator paired every anchor it was given with the clause root.
AnchorsCompared ==
  \A k \in DOMAIN calls : <<calls[k].root, calls[k].h>> \in Range(prev_compared)

\* C15: for the clause Likes($x, pizza), the store holding Likes(Ann, pizza)
\* and Likes(Bob, pasta) and an empty reject list, the only starter is pizza,
\* only members of pizza's incoming set are explored, and the search ends
\* with the solution set [Likes(Ann, pizza)] and the result true.
C15_PizzaEndToEnd ==
  PizzaScenario =>
    /\ pc # "idle" => /\ Len(potential_starters) = 1
                      /\ potential_starters[1].handle = 2
    /\ \A k \in DOMAIN calls : /\ 2 \in Range(AtomTable[calls[k].h].out)
                               /\ calls[k].h \in corpus
    /\ (pc = "done" /\ AnchorsCompared) => (solns = <<9>> /\ result)

\* The search ended after both Likes links were scored.
C15_Witness ==
  /\ PizzaScenario
  /\ pc = "done"
  /\ calls # <<>>
  /\ AnchorsCompared
  /\ <<8, 10>> \in Range(prev_compared)
  /\ solns = <<9>>
  /\ result

\* C16: clause_match has returned true on every call.
C16_AlwaysReturnsTrue ==
  cb_cnt > 0 => last.ret

\* A repeated pair with a rejected candidate was answered true.
C16_Witness ==
  /\ cb_cnt >= 2
  /\ ~last.fresh
  /\ HasRejectedLeaf(last.gh)
  /\ last.ret

\* The calls made for the k-th starter.
CallsOf(k) == { n \in DOMAIN calls : calls[n].search = k }

RECURSIVE UnquotedLeaves(_, _, _)
UnquotedLeaves(h, depth, term) ==
  IF ~IsLink(h) THEN { <<h, depth, term>> }
  ELSE IF AtomTable[h].type = "QUOTE_LINK"
  THEN UnquotedLeaves(AtomTable[h].out[1], depth, term)
  ELSE UNION { UnquotedLeaves(AtomTable[h].out[k], depth + 1, h) :
               k \in DOMAIN AtomTable[h].out }

\* C18: a quoting wrapper is a pass-through wherever it stands: every
\* starter has the depth and the enclosing term it would have without the
\* wrappers, and no wrapper is an enclosing term.
C18_QuoteIsPassThrough ==
  \A k \in DOMAIN potential_starters :
    LET s == potential_starters[k]
    IN  /\ <<s.handle, s.depth, s.term>> \in
             UnquotedLeaves(pattern.mandatory[s.clause_idx + 1], 0, UNDEFINED)
        /\ (s.term # UNDEFINED => AtomTable[s.term].type # "QUOTE_LINK")

\* The leaves below h, left to right.
RECURSIVE PreOrderLeaves(_)
PreOrderLeaves(h) ==
  IF ~IsLink(h) THEN <<h>>
  ELSE LET o == AtomTable[h].out
           F[k \in 0..Len(o)] ==
             IF k = 0 THEN <<>> ELSE F[k - 1] \o PreOrderLeaves(o[k])
       IN  F[Len(o)]

\* The leaves of the clauses that are not evaluatable, in clause order.
WalkedLeaves ==
  LET m == pattern.mandatory
      F[k \in 0..Len(m)] ==
        IF k = 0 THEN <<>>
        ELSE F[k - 1] \o (IF m[k] \in pattern.evaluatable THEN <<>>
                          ELSE PreOrderLeaves(m[k]))
  IN  F[Len(m)]

CanStart(h) == ~IsVariable(h) /\ "@" \notin Range(AtomTable[h].name)

\* C19: no starter and no search belongs to an evaluatable clause, the
\* leaves of evaluatable clauses are in neither counter, and the starters
\* are discovered in a pre-order walk of the other clauses in clause order.
C19_EvaluatableSkipped ==
  /\ \A k \in DOMAIN potential_starters :
       pattern.mandatory[potential_starters[k].clause_idx + 1]
         \notin pattern.evaluatable
  /\ \A n \in DOMAIN calls : calls[n].root \notin pattern.evaluatable
  /\ pc # "idle" =>
       /\ pat_size = Len(WalkedLeaves)
       /\ var_size = Len(SelectSeq(WalkedLeaves, IsVariable))
       /\ { potential_starters[k].handle : k \in DOMAIN potential_starters }
            = { h \in Range(WalkedLeaves) : CanStart(h) }
  /\ (pc = "loop" /\ search_cnt = 0) =>
       [k \in DOMAIN DiscoveredStarters |-> DiscoveredStarters[k].handle]
         = SelectSeq(WalkedLeaves, CanStart)

\* A search was made for a pattern whose first clause is evaluatable.
C19_Witness ==
  /\ pattern.mandatory[1] \in pattern.evaluatable
  /\ pc = "done"
  /\ calls # <<>>
  /\ pat_size = 2

\* C20: the solution set holds each candidate at most once.
C20_SolutionsDistinct ==
  \A a, b \in DOMAIN solns : a # b => solns[a] # solns[b]

\* The link is one that extract_variables refuses: nothing in it, or a
\* variable declaration and nothing after it.
RefusedOutgoingSet(oset) ==
  \/ Len(oset) = 0
  \/ /\ Len(oset) = 1
     /\ oset[1].type \in { "VARIABLE_LIST", "VARIABLE_NODE",
                           "TYPED_VARIABLE_LINK", "GLOB_NODE" }

MembersUnset(sc) ==
  /\ sc._vardecl = Handle_UNDEFINED
  /\ sc._body = Handle_UNDEFINED
  /\ sc._varlist = <<>>

\* C12: the construction of a scope link from an empty outgoing set, or
\* from a variable declaration alone, ends with a structure error, and the
\* declaration, the body and the variable list are then unset.
C12_StructureErrors ==
  \A sc \in { scA, scB } :
    /\ (sc.built # "no" /\ sc.type = "SCOPE_LINK"
          /\ RefusedOutgoingSet(sc.oset))
         => sc.built = "SyntaxException"
    /\ sc.built \in { "SyntaxException", "InvalidParamException" }
         => MembersUnset(sc)

\* Both refusals have happened: the empty set and the lone declaration.
C12_Witness ==
  /\ scA.built = "SyntaxException"
  /\ Len(scA.oset) = 0
  /\ scB.built = "SyntaxException"
  /\ Len(scB.oset) = 1

\* C13: is_equal of a scope and itself is true, and is_equal of two scopes
\* gives the same answer in both directions.
C13_ReflexiveAndSymmetric ==
  /\ eqAA # "none" => eqAA = "true"
  /\ (eqAB # "none" /\ eqBA # "none") => eqAB = eqBA

\* The terms of a scope after its declaration.
ScopedTerms(sc) ==
  SubSeq(sc.oset, IF sc._vardecl = Handle_UNDEFINED THEN 1 ELSE 2,
         Len(sc.oset))

\* term with from[k] renamed to to[k], for every k at once.
RECURSIVE Rename(_, _, _)
Rename(term, from, to) ==
  LET at == { k \in DOMAIN from : from[k] = term }
  IN  IF at # {} THEN to[CHOOSE k \in at : \A m \in at : k <= m]
      ELSE [term EXCEPT !.out = [k \in DOMAIN term.out |->
                                   Rename(term.out[k], from, to)]]

\* C14: for two scopes of one type with equal variable lists and as many
\* scoped terms, is_equal is true exactly when each term of the other,
\* its variables renamed by position to the variables of this scope, is
\* the term of this scope at that position; a scope of P(x) over x is equal
\* to a scope of P(y) over y and not to a scope of Q(x) over x.
C14_AlphaEquivalence ==
  /\ ( /\ eqAB # "none"
       /\ scA.type = scB.type
       /\ Len(scA._varlist) = Len(scB._varlist)
       /\ \A k \in DOMAIN scA._varlist :
            scA._varlist[k].restriction = scB._varlist[k].restriction
       /\ Len(ScopedTerms(scA)) = Len(ScopedTerms(scB)) )
     => ( eqAB = "true" <=>
            \A n \in DOMAIN ScopedTerms(scA) :
              Rename(ScopedTerms(scB)[n],
                     [k \in DOMAIN scB._varlist |-> scB._varlist[k].var],
                     [k \in DOMAIN scA._varlist |-> scA._varlist[k].var])
                = ScopedTerms(scA)[n] )
  /\ ( /\ eqAB # "none"
       /\ scA.type = "SCOPE_LINK" /\ scA.oset = << VarX, P(VarX) >>
       /\ scB.type = "SCOPE_LINK" )
     => /\ scB.oset = << VarY, P(VarY) >> => eqAB = "true"
        /\ scB.oset = << VarX, Q(VarX) >> => eqAB = "false"

\* The scope of P(x) over x was found equal to the scope of P(y) over y.
C14_Witness ==
  /\ scA.oset = << VarX, P(VarX) >>
  /\ scB.oset = << VarY, P(VarY) >>
  /\ scA.type = "SCOPE_LINK" /\ scB.type = "SCOPE_LINK"
  /\ eqAB = "true"
  /\ eqBA = "true"

====
